---- MODULE Spec2Model ----
(***************************************************************************)
(* Friendship engine of friends-of-friends: the Friendship collection      *)
(* (directed request edges), the request state machine (friendRequest,     *)
(* acceptRequest, denyRequest) and the queries derived from the accepted   *)
(* edges (getFriends, getFriendsOfFriends, getFriendship).                 *)
(*                                                                         *)
(* Optional values (a document or null) are sets with at most one element. *)
(* A collection is a sequence in natural (insertion) order, which is the   *)
(* order find returns and the order findOne takes its first match from.    *)
(***************************************************************************)
EXTENDS Integers, Sequences, FiniteSets, TLC

\* ------------------------------------------------------------------ bounds
NumAccounts == 4        \* registered accounts
NumActive == 2          \* accounts that call the request state machine under Spec
MaxRequests == 2        \* documents saved in a run of Spec
MaxGraphRequests == 5   \* documents saved in a run of GraphSpec
MaxCalls == 3           \* calls begun in a run of ConcSpec
MaxFofRequests == 2     \* documents saved in a run of FofSpec

Accounts == 1..NumAccounts
Active == 1..NumActive
\* Handle h <= NumAccounts is the e-mail of account h; the last one is registered to nobody.
Email(a) == a
UnknownHandle == NumAccounts + 1

VARIABLES
    edges,      \* the Friendship collection, in natural order
    nextId,     \* the _id the next saved document gets
    prev,       \* the collection as it was when the last call began
    calls,      \* the calls in flight when calls overlap (ConcSpec), by caller
    ncalls,     \* the calls begun so far (ConcSpec)
    last,       \* the last call: operation, arguments and what its caller got
    fof         \* the getFriendsOfFriends call in flight (FofSpec)

vars == <<edges, nextId, prev, calls, ncalls, last, fof>>

\* Date.now(): a logical clock that has ticked once for every document saved
DateNow == nextId

\* ------------------------------------------------------- identity store
resolveByHandle(h) == IF h \in Accounts THEN {h} ELSE {}

\* privacy.friendRequests of an account: the identity store owns it, and every
\* call reads the value it has at that moment
PrivacyValues == {"ANYBODY", "NOBODY"}

canReceiveFriendRequest(setting) == setting # "NOBODY"

\* requestedAccountInfo, or nothing when the e-mail names no account
viewProfile(requesterId, requestedEmail, setting) ==
    { [id |-> acc, friendRequests |-> canReceiveFriendRequest(setting)] :
        acc \in resolveByHandle(requestedEmail) }

\* ---------------------------------------------------- the collection
\* variant: the two sides of the request swapped
NewFriendshipSwapped(i, requesterId, requestedId, t) ==
    [id |-> i, requester |-> requestedId, requested |-> requesterId,
     status |-> "Pending", dateSent |-> t, dateAccepted |-> {}]

NewFriendship(i, requesterId, requestedId, t) ==
    [id |-> i, requester |-> requesterId, requested |-> requestedId,
     status |-> "Pending", dateSent |-> t, dateAccepted |-> {}]

\* A query: the documents whose status is conditions.status and that agree with one
\* clause of conditions.or on every field the clause names.
Matches(doc, conditions) ==
    /\ doc.status = conditions.status
    /\ \E k \in 1..Len(conditions.or) :
          \A f \in DOMAIN conditions.or[k] : doc[f] = conditions.or[k][f]

find(store, conditions) == SelectSeq(store, LAMBDA doc : Matches(doc, conditions))

findOne(store, conditions) ==
    LET m == find(store, conditions) IN IF m = <<>> THEN {} ELSE {Head(m)}

\* the collection after the first document matching the conditions got the updates
findOneAndUpdate(store, conditions, updates) ==
    LET m == findOne(store, conditions) IN
    [i \in 1..Len(store) |->
        IF store[i].id \in {d.id : d \in m}
        THEN [f \in DOMAIN store[i] |->
                IF f \in DOMAIN updates THEN updates[f] ELSE store[i][f]]
        ELSE store[i]]

\* document.remove(): deletes the document with this _id
removeDoc(store, docId) == SelectSeq(store, LAMBDA e : e.id # docId)

\* ------------------------------------------------------------ vocabulary
Range(seq) == {seq[k] : k \in 1..Len(seq)}

\* the edges of a status that relate the pair, in either direction
Between(store, a, b, status) ==
    {e \in Range(store) :
        /\ e.status = status
        /\ \/ e.requester = a /\ e.requested = b
           \/ e.requester = b /\ e.requested = a}

ActiveBetween(store, a, b) == Between(store, a, b, "Pending") \cup Between(store, a, b, "Accepted")

\* the Pending requests of a to b
PendingFrom(store, a, b) ==
    {e \in Range(store) : e.status = "Pending" /\ e.requester = a /\ e.requested = b}

\* ------------------------------------------------------------- queries
\* variant: only the edge accountId1 requested
getFriendshipDirected(store, accountId1, accountId2) ==
    findOne(store, [or |-> << [requester |-> accountId1, requested |-> accountId2] >>,
                    status |-> "Accepted"])

\* the Accepted edge relating the two accounts, in either direction
getFriendship(store, accountId1, accountId2) ==
    findOne(store, [or |-> << [requester |-> accountId1, requested |-> accountId2],
                             [requester |-> accountId2, requested |-> accountId1] >>,
                    status |-> "Accepted"])

\* variant: always the requested side, whichever side accountId is on
friendIdsOfRequested(accountId, friendships) ==
    [k \in 1..Len(friendships) |-> friendships[k].requested]

RECURSIVE friendIdsOf(_, _)
friendIdsOf(accountId, friendships) ==
    IF friendships = <<>> THEN <<>>
    ELSE << IF accountId = Head(friendships).requester
            THEN Head(friendships).requested
            ELSE Head(friendships).requester >>
         \o friendIdsOf(accountId, Tail(friendships))

\* variant: the requests sent, whatever their status
getSentRequestsAnyStatus(store, accountId) ==
    SelectSeq(store, LAMBDA doc : doc.requester = accountId)

\* the Pending requests accountId has sent
getSentRequests(store, accountId) ==
    find(store, [or |-> << [requester |-> accountId] >>, status |-> "Pending"])

\* the Pending requests accountId has received
getReceivedRequests(store, accountId) ==
    find(store, [or |-> << [requested |-> accountId] >>, status |-> "Pending"])

getRequests(store, accountId) ==
    [sent |-> getSentRequests(store, accountId),
     received |-> getReceivedRequests(store, accountId)]

\* variant: the edges of accountId are taken whatever their status
getFriendsAnyStatus(store, accountId) ==
    friendIdsOf(accountId,
        SelectSeq(store, LAMBDA doc : doc.requester = accountId \/ doc.requested = accountId))

\* the ids of the accounts on the other side of accountId's Accepted edges
getFriends(store, accountId) ==
    friendIdsOf(accountId,
        find(store, [or |-> << [requester |-> accountId], [requested |-> accountId] >>,
                     status |-> "Accepted"]))

\* ------------------------------------------------- friends of friends
\* The values getFriendsOfFriends compares: an ObjectId read from a document, or the
\* string an array of ObjectIds is converted to (its ids, comma-joined).
ObjectId(v) == [type |-> "ObjectId", v |-> <<v>>]
arrayToString(ids) == [type |-> "string", v |-> ids]

\* x === y: strings by value, objects by identity, and every ObjectId read from a
\* document is an object of its own
StrictEquals(x, y) == x.type = y.type /\ x.type = "string" /\ x.v = y.v

\* Array.prototype.indexOf, 0-based, -1 when nothing is strictly equal
indexOf(arr, x) ==
    LET hits == {k \in 1..Len(arr) : StrictEquals(arr[k], x)} IN
    IF hits = {} THEN -1 ELSE (CHOOSE k \in hits : \A j \in hits : k <= j) - 1

\* variant: the account itself is counted like any other id
eachFriendOfFriendWithSelf(acc, accountId, friendsOfFriendIds, k) ==
    [acc EXCEPT
        !.idsFound = acc.idsFound \o
            [j \in 1..(Len(friendsOfFriendIds) + 1 - k) |-> arrayToString(friendsOfFriendIds)],
        !.ids = acc.ids \o SubSeq(friendsOfFriendIds, k, Len(friendsOfFriendIds))]

\* The state of one getFriendsOfFriends call is acc: idsFound, ids (the array
\* friendsOfFriendsIds), totalResults, and what the caller has been handed so far:
\* delivered, the invocations of done, each with the number of sub-queries that had
\* completed when it was made.

\* friendsOfFriendIds.forEach in the callback of one sub-query, from position k on
RECURSIVE eachFriendOfFriend(_, _, _, _)
eachFriendOfFriend(acc, accountId, friendsOfFriendIds, k) ==
    IF k > Len(friendsOfFriendIds) THEN acc
    ELSE
      LET friendOfFriendId == friendsOfFriendIds[k]
          counted ==
            IF indexOf(acc.idsFound, ObjectId(friendOfFriendId)) = -1
               /\ accountId # friendOfFriendId
            THEN [acc EXCEPT
                    !.idsFound = Append(acc.idsFound, arrayToString(friendsOfFriendIds)),
                    !.ids = Append(acc.ids, friendOfFriendId)]
            ELSE acc
      IN eachFriendOfFriend(counted, accountId, friendsOfFriendIds, k + 1)

\* variant: a sub-query that failed is counted in totalResults like the others
subQueryDoneCountingFailures(acc, store, accountId, friendIds, p, err) ==
    LET added == IF err THEN acc
                 ELSE eachFriendOfFriend(acc, accountId, getFriends(store, friendIds[p]), 1)
        failed == IF err
                  THEN Append(acc.delivered,
                          [kind |-> "err", ids |-> <<>>, after |-> acc.completed + 1])
                  ELSE acc.delivered
    IN
    [added EXCEPT
        !.completed = acc.completed + 1,
        !.totalResults = acc.totalResults + 1,
        !.delivered = IF acc.totalResults + 1 = Len(friendIds)
                      THEN Append(failed, [kind |-> "ok", ids |-> added.ids,
                                           after |-> acc.completed + 1])
                      ELSE failed]

\* variant: the result is handed over by the first sub-query that completes
subQueryDoneFirst(acc, store, accountId, friendIds, p, err) ==
    LET added == IF err THEN acc
                 ELSE eachFriendOfFriend(acc, accountId, getFriends(store, friendIds[p]), 1)
    IN
    [added EXCEPT
        !.completed = acc.completed + 1,
        !.totalResults = acc.totalResults + (IF err THEN 0 ELSE 1),
        !.delivered = IF err
                      THEN Append(acc.delivered,
                              [kind |-> "err", ids |-> <<>>, after |-> acc.completed + 1])
                      ELSE IF acc.totalResults = 0
                      THEN Append(acc.delivered,
                              [kind |-> "ok", ids |-> added.ids, after |-> acc.completed + 1])
                      ELSE acc.delivered]

\* variant: a sub-query that failed is dropped without a word
subQueryDoneSilentFailure(acc, store, accountId, friendIds, p, err) ==
    LET added == IF err THEN acc
                 ELSE eachFriendOfFriend(acc, accountId, getFriends(store, friendIds[p]), 1)
        totalResults == acc.totalResults + (IF err THEN 0 ELSE 1)
    IN
    [added EXCEPT
        !.completed = acc.completed + 1,
        !.totalResults = totalResults,
        !.delivered = IF ~err /\ totalResults = Len(friendIds)
                      THEN Append(acc.delivered,
                              [kind |-> "ok", ids |-> added.ids, after |-> acc.completed + 1])
                      ELSE acc.delivered]

\* the callback of the sub-query at position p of friendIds; err: the sub-query failed
subQueryDone(acc, store, accountId, friendIds, p, err) ==
    LET completed == acc.completed + 1 IN
    IF err
    THEN [acc EXCEPT !.completed = completed,
                     !.delivered = Append(acc.delivered,
                                      [kind |-> "err", ids |-> <<>>, after |-> completed])]
    ELSE
      LET added == eachFriendOfFriend(acc, accountId, getFriends(store, friendIds[p]), 1)
          totalResults == acc.totalResults + 1
      IN
      [added EXCEPT
          !.completed = completed,
          !.totalResults = totalResults,
          !.delivered = IF totalResults = Len(friendIds)
                        THEN Append(acc.delivered,
                                [kind |-> "ok", ids |-> added.ids, after |-> completed])
                        ELSE acc.delivered]

\* the sub-queries' callbacks, run in the order the sub-queries complete; failing:
\* the positions of friendIds whose sub-query fails
RECURSIVE eachFriend(_, _, _, _, _, _)
eachFriend(acc, store, accountId, friendIds, order, failing) ==
    IF order = <<>> THEN acc
    ELSE eachFriend(
            subQueryDone(acc, store, accountId, friendIds, Head(order), Head(order) \in failing),
            store, accountId, friendIds, Tail(order), failing)

\* variant: the friends are looped over also when there are none
getFriendsOfFriendsDoneAlwaysLoops(store, accountId, order, failing) ==
    eachFriend([idsFound |-> <<>>, ids |-> <<>>, totalResults |-> 0,
                completed |-> 0, delivered |-> <<>>],
               store, accountId, getFriends(store, accountId), order, failing).delivered

\* the friends for which getFriendsOfFriends issues a sub-query
subQueries(store, accountId) ==
    LET friendIds == getFriends(store, accountId) IN
    IF Len(friendIds) = 0 THEN <<>> ELSE friendIds

\* the sub-queries in flight once `completed` of them have completed: forEach
\* issues them all before the first callback runs
subQueriesInFlight(store, accountId, completed) ==
    Len(subQueries(store, accountId)) - completed

\* every invocation of done a getFriendsOfFriends call makes. order: the order in
\* which the sub-queries complete, a permutation of the positions of
\* getFriends(accountId)
getFriendsOfFriendsDone(store, accountId, order, failing) ==
    LET friendIds == getFriends(store, accountId) IN
    IF Len(friendIds) = 0 THEN << [kind |-> "ok", ids |-> <<>>, after |-> 0] >>
    ELSE eachFriend([idsFound |-> <<>>, ids |-> <<>>, totalResults |-> 0,
                     completed |-> 0, delivered |-> <<>>],
                    store, accountId, friendIds, order, failing).delivered

\* the array the caller is handed when no sub-query fails
getFriendsOfFriends(store, accountId, order) ==
    getFriendsOfFriendsDone(store, accountId, order, {})[1].ids

CompletionOrders(n) ==
    {o \in [1..n -> 1..n] : \A i \in 1..n, j \in 1..n : o[i] = o[j] => i = j}

\* ------------------------------------------------------ relationships
\* the values of the relationships module
relationships == [NOT_FRIENDS |-> 0, FRIENDS_OF_FRIENDS |-> 1, FRIENDS |-> 2]

\* variant: only the accounts accountId1 asked count as its friends
areFriendsAskedOnly(store, accountId1, accountId2) ==
    \E e \in Range(store) :
        e.status = "Accepted" /\ e.requester = accountId1 /\ e.requested = accountId2

\* accountId2 is among the friends of accountId1
areFriends(store, accountId1, accountId2) ==
    LET friendIds == getFriends(store, accountId1) IN
    \E i \in 1..Len(friendIds) : accountId2 = friendIds[i]

\* variant: two accounts that are friends are not friends of friends
areFriendsOfFriendsStrangersOnly(store, accountId1, accountId2) ==
    /\ ~areFriends(store, accountId1, accountId2)
    /\ \E f \in Range(getFriends(store, accountId1)) :
          f \in Range(getFriends(store, accountId2))

\* the two accounts have a friend in common
areFriendsOfFriends(store, accountId1, accountId2) ==
    LET account1FriendIds == getFriends(store, accountId1)
        account2FriendIds == getFriends(store, accountId2)
    IN
    IF Len(account1FriendIds) > 0
    THEN IF Len(account2FriendIds) > 0
         THEN \E i \in 1..Len(account1FriendIds), j \in 1..Len(account2FriendIds) :
                 account1FriendIds[i] = account2FriendIds[j]
         ELSE FALSE
    ELSE FALSE

\* variant: the common friends are looked at first
getRelationshipMutualFirst(store, accountId1, accountId2) ==
    IF areFriendsOfFriends(store, accountId1, accountId2)
    THEN relationships.FRIENDS_OF_FRIENDS
    ELSE IF areFriends(store, accountId1, accountId2)
    THEN relationships.FRIENDS
    ELSE relationships.NOT_FRIENDS

getRelationship(store, accountId1, accountId2) ==
    IF areFriends(store, accountId1, accountId2)
    THEN relationships.FRIENDS
    ELSE IF areFriendsOfFriends(store, accountId1, accountId2)
    THEN relationships.FRIENDS_OF_FRIENDS
    ELSE relationships.NOT_FRIENDS

\* --------------------------------------------------- what a caller gets
\* kind: "ok" done(null, doc); "empty" done(); "err" done(error); "throw" an
\* exception leaves the handler and done is never called.
Outcome(store, kind, msg, doc) == [store |-> store, kind |-> kind, msg |-> msg, doc |-> doc]

PendingExists == "A pending request already exists"
AlreadyFriends == "Cannot request friendship of friends"
NotAllowed == "You are not allowed to send this user a friend request."
NoRequest == "Request does not exist!"
NotDefined == "ReferenceError: populatedFriendship is not defined"

\* ------------------------------------------------ sides of a friendship
InvalidId == "Invalid friendshipId!"

\* Model.findById: the document with this _id, if there is one
findById(store, friendshipId) == {doc \in Range(store) : doc.id = friendshipId}

\* done(null, answer), or done(error) when no document has the _id
isRequester(store, friendshipId, accountId) ==
    LET friendship == findById(store, friendshipId) IN
    IF friendship = {} THEN Outcome(store, "err", InvalidId, {})
    ELSE Outcome(store, "ok", "", {(CHOOSE f \in friendship : TRUE).requester = accountId})

isRequested(store, friendshipId, accountId) ==
    LET friendship == findById(store, friendshipId) IN
    IF friendship = {} THEN Outcome(store, "err", InvalidId, {})
    ELSE Outcome(store, "ok", "", {(CHOOSE f \in friendship : TRUE).requested = accountId})

\* ------------------------------------------------------- the requests
\* variant: requestedAccountInfo.friendRequests is not looked at
friendRequestLookupNoGate(store, requesterId, requestedEmail, setting) ==
    LET info == viewProfile(requesterId, requestedEmail, setting) IN
    IF info = {} THEN Outcome(store, "empty", "", {})
    ELSE IF getFriendship(store, requesterId, (CHOOSE x \in info : TRUE).id) # {}
    THEN Outcome(store, "throw", NotDefined, {})
    ELSE Outcome(store, "save", "", {(CHOOSE x \in info : TRUE).id})

\* variant: an e-mail that names no account is an error
friendRequestLookupNoAccountErr(store, requesterId, requestedEmail, setting) ==
    LET info == viewProfile(requesterId, requestedEmail, setting) IN
    IF info = {} THEN Outcome(store, "err", "No such account", {})
    ELSE IF getFriendship(store, requesterId, (CHOOSE x \in info : TRUE).id) # {}
    THEN Outcome(store, "throw", NotDefined, {})
    ELSE IF ~(CHOOSE x \in info : TRUE).friendRequests
    THEN Outcome(store, "err", NotAllowed, {})
    ELSE Outcome(store, "save", "", {(CHOOSE x \in info : TRUE).id})

\* friendRequest up to its save: what the caller gets, or kind "save" when the
\* request is to be saved
friendRequestLookup(store, requesterId, requestedEmail, setting) ==
    LET info == viewProfile(requesterId, requestedEmail, setting) IN
    IF info = {} THEN Outcome(store, "empty", "", {})
    ELSE
      LET requested == CHOOSE x \in info : TRUE
          friendship == getFriendship(store, requesterId, requested.id)
      IN
      IF friendship # {}
      THEN \* err is computed, then the argument populatedFriendship is evaluated
           LET err == IF (CHOOSE f \in friendship : TRUE).status = "Pending"
                      THEN PendingExists ELSE AlreadyFriends
           IN Outcome(store, "throw", NotDefined, {})
      ELSE IF ~requested.friendRequests
      THEN Outcome(store, "err", NotAllowed, {})
      ELSE Outcome(store, "save", "", {requested.id})

\* new Friendship({requester, requested}).save(done)
friendRequestSave(store, i, t, requesterId, requestedId) ==
    Outcome(Append(store, NewFriendship(i, requesterId, requestedId, t)), "ok", "", {i})

friendRequest(store, i, t, requesterId, requestedEmail, setting) ==
    LET found == friendRequestLookup(store, requesterId, requestedEmail, setting) IN
    IF found.kind = "save"
    THEN friendRequestSave(store, i, t, requesterId, CHOOSE x \in found.doc : TRUE)
    ELSE found

\* variant: the conditions leave the status out
acceptRequestAnyStatus(store, t, requesterId, requestedId) ==
    LET friendship == SelectSeq(store, LAMBDA e :
                          e.requester = requesterId /\ e.requested = requestedId)
    IN
    IF friendship # <<>>
    THEN Outcome([k \in 1..Len(store) |->
                    IF store[k].id = Head(friendship).id
                    THEN [store[k] EXCEPT !.status = "Accepted", !.dateAccepted = {t}]
                    ELSE store[k]],
                 "ok", "", {Head(friendship).id})
    ELSE Outcome(store, "err", NoRequest, {})

\* variant: the updates leave dateAccepted out
acceptRequestNoDate(store, t, requesterId, requestedId) ==
    LET conditions == [or |-> << [requester |-> requesterId, requested |-> requestedId] >>,
                       status |-> "Pending"]
        friendship == findOne(store, conditions)
    IN
    IF friendship # {}
    THEN Outcome(findOneAndUpdate(store, conditions, [status |-> "Accepted"]), "ok", "",
                 {f.id : f \in friendship})
    ELSE Outcome(store, "err", NoRequest, {})

\* variant: the updates stamp dateSent as well
acceptRequestRestamped(store, t, requesterId, requestedId) ==
    LET conditions == [or |-> << [requester |-> requesterId, requested |-> requestedId] >>,
                       status |-> "Pending"]
        updates == [status |-> "Accepted", dateAccepted |-> {t}, dateSent |-> t]
        friendship == findOne(store, conditions)
    IN
    IF friendship # {}
    THEN Outcome(findOneAndUpdate(store, conditions, updates), "ok", "",
                 {f.id : f \in friendship})
    ELSE Outcome(store, "err", NoRequest, {})

acceptRequest(store, t, requesterId, requestedId) ==
    LET conditions == [or |-> << [requester |-> requesterId, requested |-> requestedId] >>,
                       status |-> "Pending"]
        updates == [status |-> "Accepted", dateAccepted |-> {t}]
        friendship == findOne(store, conditions)
    IN
    IF friendship # {}
    THEN Outcome(findOneAndUpdate(store, conditions, updates), "ok", "",
                 {f.id : f \in friendship})
    ELSE Outcome(store, "err", NoRequest, {})

\* AccountModel.acceptRequest: FriendshipModel.acceptRequest with the two ids in the
\* other order; an error is thrown from the callback, and done is never called
accountAcceptRequest(store, t, requesterId, requestedId) ==
    LET r == acceptRequest(store, t, requestedId, requesterId) IN
    IF r.kind = "err" THEN Outcome(store, "throw", r.msg, {}) ELSE r

\* AccountDocument.acceptRequest, called on the document of account self
documentAcceptRequest(store, t, self, requesterId) ==
    accountAcceptRequest(store, t, requesterId, self)

\* variant: the request is looked up whatever its status
denyRequestAnyStatus(store, requesterId, requestedId) ==
    LET request == SelectSeq(store, LAMBDA e :
                        e.requester = requesterId /\ e.requested = requestedId)
    IN
    IF request # <<>>
    THEN Outcome(removeDoc(store, Head(request).id), "ok", "", {Head(request).id})
    ELSE Outcome(store, "err", NoRequest, {})

\* variant: the request is looked up in either direction
denyRequestFindEitherWay(store, requesterId, requestedId) ==
    findOne(store, [or |-> << [requester |-> requesterId, requested |-> requestedId],
                             [requester |-> requestedId, requested |-> requesterId] >>,
                    status |-> "Pending"])

\* the request denyRequest looks up
denyRequestFind(store, requesterId, requestedId) ==
    findOne(store, [or |-> << [requester |-> requesterId, requested |-> requestedId] >>,
                    status |-> "Pending"])

\* request.remove(done)
denyRequestRemove(store, docId) == Outcome(removeDoc(store, docId), "ok", "", {docId})

denyRequest(store, requesterId, requestedId) ==
    LET request == denyRequestFind(store, requesterId, requestedId) IN
    IF request # {}
    THEN denyRequestRemove(store, (CHOOSE r \in request : TRUE).id)
    ELSE Outcome(store, "err", NoRequest, {})

\* denyRequest with an acceptRequest of the same pair completing between its findOne
\* and the request.remove of its callback
denyRequestAcceptBetween(store, t, requesterId, requestedId) ==
    LET request == denyRequestFind(store, requesterId, requestedId)
        accepted == acceptRequest(store, t, requesterId, requestedId).store
    IN
    IF request # {}
    THEN denyRequestRemove(accepted, (CHOOSE r \in request : TRUE).id)
    ELSE Outcome(accepted, "err", NoRequest, {})

\* ----------------------------------- denyRequest of the second engine variant
FriendshipNotDefined == "ReferenceError: Friendship is not defined"

\* Model.remove(conditions): deletes every document matching the conditions
remove(store, conditions) == SelectSeq(store, LAMBDA doc : ~Matches(doc, conditions))

\* Friendship.findOne(conditions)
denyRequest2Find(store, requesterId, requestedId) ==
    findOne(store, [or |-> << [requester |-> requesterId, requested |-> requestedId] >>,
                    status |-> "Pending"])

\* Friendship.remove(conditions, done)
denyRequest2Remove(store, requesterId, requestedId) ==
    Outcome(remove(store, [or |-> << [requester |-> requesterId, requested |-> requestedId] >>,
                           status |-> "Pending"]),
            "ok", "", {})

\* The variant names the model Friendship, an identifier the file never declares;
\* bound tells whether the environment of the call gives it the model as its value.
denyRequest2(store, requesterId, requestedId, bound) ==
    IF ~bound THEN Outcome(store, "throw", FriendshipNotDefined, {})
    ELSE IF denyRequest2Find(store, requesterId, requestedId) # {}
    THEN denyRequest2Remove(store, requesterId, requestedId)
    ELSE Outcome(store, "err", NoRequest, {})

\* the same call with an acceptRequest of the same pair completing between its
\* findOne and the remove of its callback
denyRequest2AcceptBetween(store, t, requesterId, requestedId, bound) ==
    LET accepted == acceptRequest(store, t, requesterId, requestedId).store IN
    IF ~bound THEN Outcome(accepted, "throw", FriendshipNotDefined, {})
    ELSE IF denyRequest2Find(store, requesterId, requestedId) # {}
    THEN denyRequest2Remove(accepted, requesterId, requestedId)
    ELSE Outcome(accepted, "err", NoRequest, {})

\* ------------------------------------------------------------- actions
\* setting: the requested account's privacy.friendRequests as the call reads it
Call(op, a, b, setting, r) ==
    [op |-> op, a |-> a, b |-> b, setting |-> setting,
     kind |-> r.kind, msg |-> r.msg, doc |-> r.doc]

FriendRequest(requesterId, requestedEmail, setting) ==
    LET r == friendRequest(edges, nextId, DateNow, requesterId, requestedEmail, setting) IN
    /\ edges' = r.store
    /\ nextId' = IF r.kind = "ok" THEN nextId + 1 ELSE nextId
    /\ prev' = edges
    /\ last' = Call("friendRequest", requesterId, requestedEmail, setting, r)
    /\ UNCHANGED <<fof, calls, ncalls>>

AcceptRequest(requesterId, requestedId) ==
    LET r == acceptRequest(edges, DateNow, requesterId, requestedId) IN
    /\ edges' = r.store
    /\ prev' = edges
    /\ last' = Call("acceptRequest", requesterId, requestedId, "", r)
    /\ UNCHANGED <<fof, nextId, calls, ncalls>>

\* AccountModel.acceptRequest(requesterId, requestedId), which is also what the
\* document of requestedId runs for acceptRequest(requesterId)
AccountAcceptRequest(requesterId, requestedId) ==
    LET r == documentAcceptRequest(edges, DateNow, requestedId, requesterId) IN
    /\ edges' = r.store
    /\ prev' = edges
    /\ last' = Call("AccountModel.acceptRequest", requesterId, requestedId, "", r)
    /\ UNCHANGED <<fof, nextId, calls, ncalls>>

DenyRequest(requesterId, requestedId) ==
    LET r == denyRequest(edges, requesterId, requestedId) IN
    /\ edges' = r.store
    /\ prev' = edges
    /\ last' = Call("denyRequest", requesterId, requestedId, "", r)
    /\ UNCHANGED <<fof, nextId, calls, ncalls>>

Callers == {"c1", "c2"}

Idle ==
    [op |-> "none", a |-> 1, b |-> 1, setting |-> "", pc |-> "idle", found |-> {},
     kind |-> "none", msg |-> "", doc |-> {}, n |-> 0, rivals |-> {}, seen |-> {}]

\* no getFriendsOfFriends call has begun
FofIdle ==
    [pc |-> "idle", accountId |-> 1, friendIds |-> <<>>, pending |-> {},
     acc |-> [idsFound |-> <<>>, ids |-> <<>>, totalResults |-> 0,
              completed |-> 0, delivered |-> <<>>]]

Init ==
    /\ fof = FofIdle
    /\ calls = [c \in Callers |-> Idle]
    /\ ncalls = 0
    /\ edges = <<>>
    /\ nextId = 1
    /\ prev = <<>>
    /\ last = [op |-> "none", a |-> 1, b |-> 1, setting |-> "",
               kind |-> "none", msg |-> "", doc |-> {}]

\* A call that fails leaves the collection as it was: whatever follows it also
\* follows the state it began in, so a run is followed through the calls that
\* succeed, and a failed call is the last one of its run.
Succeeded == last.kind \in {"none", "ok"}

\* Every call of the request state machine among the active accounts, one at a time.
Next ==
    \/ \E a \in Active, h \in Active \cup {UnknownHandle}, s \in PrivacyValues :
          Succeeded /\ FriendRequest(a, h, s) /\ nextId' <= MaxRequests + 1
    \/ \E a \in Active, b \in Active : Succeeded /\ AcceptRequest(a, b)
    \/ \E a \in Active, b \in Active : Succeeded /\ AccountAcceptRequest(a, b)
    \/ \E a \in Active, b \in Active : Succeeded /\ DenyRequest(a, b)

Spec == Init /\ [][Next]_vars

\* The friendship graphs over all accounts, built by the calls that succeed: the
\* account with the lower id asks, the other one allows requests and accepts, a
\* request is answered before the next one is sent, and the pairs make friends in
\* increasing order (by requester, then by requested).
GraphNext ==
    \/ \E a \in Accounts, b \in Accounts :
          /\ a < b
          /\ \A e \in Range(edges) :
                /\ e.status = "Accepted"
                /\ e.requester < a \/ (e.requester = a /\ e.requested < b)
          /\ FriendRequest(a, Email(b), "ANYBODY")
          /\ nextId' <= MaxGraphRequests + 1
          /\ last'.kind = "ok"
    \/ \E a \in Accounts, b \in Accounts :
          a < b /\ AcceptRequest(a, b) /\ last'.kind = "ok"

GraphSpec == Init /\ [][GraphNext]_vars

\* ------------------------------------------------------ overlapping calls
\* A call is a chain of callbacks: it runs up to its next query, the collection
\* executes the query on its own (each query atomically), and the callback goes on.
\* The calls of two callers interleave between their queries.

\* the two accounts whose calls overlap
RacePairs == { <<1, 2>>, <<2, 1>> }

InFlight(call) == call.pc \notin {"idle", "done"}

Done(call, r) == [call EXCEPT !.pc = "done", !.kind = r.kind, !.msg = r.msg, !.doc = r.doc]

\* caller c begins a call; n numbers the calls, rivals are the numbers of the same
\* calls (operation and arguments) in flight at this moment, and seen are the
\* Pending requests of a to b at this moment
Begin(c, op, a, b, setting, pc) ==
    /\ ~InFlight(calls[c])
    /\ ncalls < MaxCalls
    /\ ncalls' = ncalls + 1
    /\ calls' = [calls EXCEPT ![c] =
            [op |-> op, a |-> a, b |-> b, setting |-> setting, pc |-> pc, found |-> {},
             kind |-> "none", msg |-> "", doc |-> {}, n |-> ncalls + 1,
             rivals |-> { calls[d].n : d \in { x \in Callers \ {c} :
                            /\ InFlight(calls[x])
                            /\ calls[x].op = op /\ calls[x].a = a /\ calls[x].b = b } },
             seen |-> {e.id : e \in PendingFrom(edges, a, b)}]]
    /\ UNCHANGED <<fof, edges, nextId, prev, last>>

BeginFriendRequest(c, requesterId, requestedEmail, setting) ==
    Begin(c, "friendRequest", requesterId, requestedEmail, setting, "lookup")

\* viewProfile, then getFriendship
FriendRequestLookup(c) ==
    LET call == calls[c]
        r == friendRequestLookup(edges, call.a, call.b, call.setting)
    IN
    /\ call.pc = "lookup"
    /\ calls' = [calls EXCEPT ![c] =
            IF r.kind = "save" THEN [call EXCEPT !.pc = "save", !.found = r.doc]
            ELSE Done(call, r)]
    /\ UNCHANGED <<fof, edges, nextId, prev, ncalls, last>>

FriendRequestSave(c) ==
    LET call == calls[c]
        r == friendRequestSave(edges, nextId, DateNow, call.a, CHOOSE x \in call.found : TRUE)
    IN
    /\ call.pc = "save"
    /\ edges' = r.store
    /\ nextId' = nextId + 1
    /\ calls' = [calls EXCEPT ![c] = Done(call, r)]
    /\ UNCHANGED <<fof, prev, ncalls, last>>

BeginAcceptRequest(c, requesterId, requestedId) ==
    Begin(c, "acceptRequest", requesterId, requestedId, "", "update")

\* findOneAndUpdate and its callback
AcceptRequestUpdate(c) ==
    LET call == calls[c]
        r == acceptRequest(edges, DateNow, call.a, call.b)
    IN
    /\ call.pc = "update"
    /\ edges' = r.store
    /\ calls' = [calls EXCEPT ![c] = Done(call, r)]
    /\ UNCHANGED <<fof, nextId, prev, ncalls, last>>

BeginDenyRequest(c, requesterId, requestedId) ==
    Begin(c, "denyRequest", requesterId, requestedId, "", "find")

\* findOne and its callback
DenyRequestFind(c) ==
    LET call == calls[c]
        request == denyRequestFind(edges, call.a, call.b)
    IN
    /\ call.pc = "find"
    /\ calls' = [calls EXCEPT ![c] =
            IF request # {}
            THEN [call EXCEPT !.pc = "remove", !.found = {r.id : r \in request}]
            ELSE Done(call, Outcome(edges, "err", NoRequest, {}))]
    /\ UNCHANGED <<fof, edges, nextId, prev, ncalls, last>>

\* request.remove and its callback
DenyRequestRemove(c) ==
    LET call == calls[c]
        r == denyRequestRemove(edges, CHOOSE x \in call.found : TRUE)
    IN
    /\ call.pc = "remove"
    /\ edges' = r.store
    /\ calls' = [calls EXCEPT ![c] = Done(call, r)]
    /\ UNCHANGED <<fof, nextId, prev, ncalls, last>>

ConcNext ==
    \/ \E c \in Callers, p \in RacePairs, s \in PrivacyValues :
          BeginFriendRequest(c, p[1], Email(p[2]), s)
    \/ \E c \in Callers, p \in RacePairs : BeginAcceptRequest(c, p[1], p[2])
    \/ \E c \in Callers, p \in RacePairs : BeginDenyRequest(c, p[1], p[2])
    \/ \E c \in Callers : FriendRequestLookup(c)
    \/ \E c \in Callers : FriendRequestSave(c)
    \/ \E c \in Callers : AcceptRequestUpdate(c)
    \/ \E c \in Callers : DenyRequestFind(c)
    \/ \E c \in Callers : DenyRequestRemove(c)

ConcSpec == Init /\ [][ConcNext]_vars

\* ------------------------------------------- a getFriendsOfFriends call
\* One call on a friendship graph, read by read: the first getFriends, then the
\* sub-queries, which forEach issues all at once and which complete one by one in
\* any order, each with a result or an error. The graph is built before the call.

BeginGetFriendsOfFriends(accountId) ==
    /\ fof.pc = "idle"
    /\ fof' = [FofIdle EXCEPT !.pc = "friends", !.accountId = accountId]
    /\ UNCHANGED <<edges, nextId, prev, calls, ncalls, last>>

\* the callback of this.getFriends(accountId, ...)
GetFriendsDone(err) ==
    LET friendIds == getFriends(edges, fof.accountId) IN
    /\ fof.pc = "friends"
    /\ fof' =
         IF err
         THEN [fof EXCEPT !.pc = "done",
                          !.acc.delivered = << [kind |-> "err", ids |-> <<>>, after |-> 0] >>]
         ELSE IF Len(friendIds) = 0
         THEN [fof EXCEPT !.pc = "done",
                          !.acc.delivered = << [kind |-> "ok", ids |-> <<>>, after |-> 0] >>]
         ELSE [fof EXCEPT !.pc = "subqueries",
                          !.friendIds = friendIds,
                          !.pending = 1..Len(friendIds)]
    /\ UNCHANGED <<edges, nextId, prev, calls, ncalls, last>>

\* the sub-query at position p completes and its callback runs
SubQueryComplete(p, err) ==
    /\ fof.pc = "subqueries"
    /\ p \in fof.pending
    /\ fof' = [fof EXCEPT
                 !.acc = subQueryDone(fof.acc, edges, fof.accountId, fof.friendIds, p, err),
                 !.pending = fof.pending \ {p},
                 !.pc = IF fof.pending = {p} THEN "done" ELSE "subqueries"]
    /\ UNCHANGED <<edges, nextId, prev, calls, ncalls, last>>

\* a read of the call completes
FofRead ==
    \/ \E err \in BOOLEAN : GetFriendsDone(err)
    \/ \E p \in 1..NumAccounts, err \in BOOLEAN : SubQueryComplete(p, err)

FofNext ==
    \/ fof.pc = "idle" /\ GraphNext /\ nextId' <= MaxFofRequests + 1
    \/ \E a \in Accounts : BeginGetFriendsOfFriends(a)
    \/ \E err \in BOOLEAN : GetFriendsDone(err)
    \/ \E p \in 1..NumAccounts, err \in BOOLEAN : SubQueryComplete(p, err)

\* every read the call has issued completes sooner or later
FofSpec == Init /\ [][FofNext]_vars /\ WF_vars(FofRead)

\* ---------------------------------------------------------- properties
IsCall(op, a, b) == last.op = op /\ last.a = a /\ last.b = b

\* C1: a request of a to another account b that allows requests, made while no
\* edge relates the two, succeeds and appends exactly one edge, from a to b, Pending.
C1_RequestCreatesPendingEdge ==
    \A a \in Accounts, b \in Accounts :
        ( /\ a # b
          /\ IsCall("friendRequest", a, Email(b))
          /\ canReceiveFriendRequest(last.setting)
          /\ ActiveBetween(prev, a, b) = {} )
        => /\ last.kind = "ok"
           /\ Len(edges) = Len(prev) + 1
           /\ SubSeq(edges, 1, Len(prev)) = prev
           /\ edges[Len(edges)].requester = a
           /\ edges[Len(edges)].requested = b
           /\ edges[Len(edges)].status = "Pending"
           /\ last.doc = {edges[Len(edges)].id}
           /\ \A e \in Range(prev) : e.id # edges[Len(edges)].id

C1_Witness ==
    \E a \in Accounts, b \in Accounts :
        /\ a # b
        /\ IsCall("friendRequest", a, Email(b))
        /\ ActiveBetween(prev, a, b) = {}
        /\ last.kind = "ok"
        /\ Len(edges) = Len(prev) + 1

\* C2: a request between a and b made while a Pending edge relates them (in either
\* direction) fails with the duplicate-pending error and creates no edge.
C2_DuplicatePendingRejected ==
    \A a \in Accounts, b \in Accounts :
        (a # b /\ IsCall("friendRequest", a, Email(b)) /\ Between(prev, a, b, "Pending") # {})
        => last.kind = "err" /\ last.msg = PendingExists /\ edges = prev

\* C3: at most one Pending or Accepted edge relates any unordered pair of accounts.
C3_OneActiveEdgePerPair ==
    \A a \in Accounts, b \in Accounts :
        a # b => Cardinality(ActiveBetween(edges, a, b)) <= 1

\* C4: a request between a and b made while an Accepted edge relates them hands the
\* caller the already-friends error, and creates no edge.
C4_AlreadyFriendsRejected ==
    \A a \in Accounts, b \in Accounts :
        (a # b /\ IsCall("friendRequest", a, Email(b)) /\ Between(prev, a, b, "Accepted") # {})
        => last.kind = "err" /\ last.msg = AlreadyFriends /\ edges = prev

\* C5: accepting a's Pending request to b succeeds and leaves that edge Accepted
\* with dateAccepted set; accepting again right after a successful accept of the
\* same request fails with 'Request does not exist!'.
C5_AcceptOnceThenNotFound ==
    [][ \A a \in Accounts, b \in Accounts :
          (a # b /\ last'.op = "acceptRequest" /\ last'.a = a /\ last'.b = b)
          => /\ PendingFrom(edges, a, b) # {}
                => /\ last'.kind = "ok"
                   /\ \E e \in Range(edges') :
                         /\ last'.doc = {e.id}
                         /\ e.status = "Accepted"
                         /\ e.dateAccepted # {}
             /\ (IsCall("acceptRequest", a, b) /\ last.kind = "ok")
                => last'.kind = "err" /\ last'.msg = NoRequest
      ]_vars

\* C7: denying a's Pending request to b removes it: no Pending request of a to b is
\* left, no friendship of the two is found, b is no friend of a, and a may ask again.
C7_DenyRemovesRequest ==
    \A a \in Accounts, b \in Accounts :
        (a # b /\ IsCall("denyRequest", a, b) /\ PendingFrom(prev, a, b) # {})
        => /\ last.kind = "ok"
           /\ \A e \in PendingFrom(prev, a, b) : e \notin Range(edges)
           /\ getFriendship(edges, a, b) = {}
           /\ b \notin Range(getFriends(edges, a))
           /\ friendRequest(edges, nextId, DateNow, a, Email(b), "ANYBODY").kind = "ok"

C9_FriendsSymmetric ==
    \A a \in Accounts :
        \A b \in Range(getFriends(edges, a)) : a \in Range(getFriends(edges, b))

C9_Witness ==
    \E a \in Accounts, b \in Accounts :
        /\ a # b
        /\ last.op = "acceptRequest" /\ last.kind = "ok"
        /\ b \in Range(getFriends(edges, a))
        /\ a \in Range(getFriends(edges, b))

\* C10: whatever the order in which the sub-queries complete, no friend of a is
\* among the friends of friends of a.
C10_NoFriendAmongFriendsOfFriends ==
    \A a \in Accounts :
        \A o \in CompletionOrders(Len(getFriends(edges, a))) :
            Range(getFriendsOfFriends(edges, a, o)) \cap Range(getFriends(edges, a)) = {}

\* C6: of two acceptRequest(a, b) calls that overlap while exactly one Pending
\* request of a to b exists, exactly one succeeds, with that request Accepted, and
\* the other gets 'Request does not exist!'.
C6_Racing(c, d) ==
    /\ c # d
    /\ calls[c].op = "acceptRequest" /\ calls[d].op = "acceptRequest"
    /\ calls[c].a = calls[d].a /\ calls[c].b = calls[d].b
    /\ calls[c].n \in calls[d].rivals
    /\ Cardinality(calls[d].seen) = 1
    /\ calls[c].pc = "done" /\ calls[d].pc = "done"

C6_ConcurrentAcceptOnce ==
    \A c \in Callers, d \in Callers :
        C6_Racing(c, d)
        => /\ \E w \in {c, d} :
                 /\ calls[w].kind = "ok"
                 /\ calls[w].doc = calls[d].seen
                 /\ \A l \in {c, d} \ {w} :
                       calls[l].kind = "err" /\ calls[l].msg = NoRequest
           /\ \E e \in Range(edges) :
                 /\ calls[d].seen = {e.id}
                 /\ e.status = "Accepted"
                 /\ e.dateAccepted # {}

C6_Witness ==
    \E c \in Callers, d \in Callers : C6_Racing(c, d) /\ calls[d].kind = "ok"

\* ------------------------------------------------- friends of friends
Occurrences(seq, x) == Cardinality({k \in 1..Len(seq) : seq[k] = x})

\* the identities two hops from a: friends of a friend of a, other than a itself
\* and the friends of a
TwoHops(store, a) ==
    {c \in Accounts :
        /\ c # a
        /\ c \notin Range(getFriends(store, a))
        /\ \E f \in Range(getFriends(store, a)) : c \in Range(getFriends(store, f))}

\* C11: whatever the order in which the sub-queries complete, no id is twice in the
\* friends of friends of a, however many friends of a it is a friend of.
C11_EachIdOnce ==
    \A a \in Accounts :
        \A o \in CompletionOrders(Len(getFriends(edges, a))) :
            \A x \in Accounts : Occurrences(getFriendsOfFriends(edges, a, o), x) <= 1

\* C12: whatever the order in which the sub-queries complete, a is not among the
\* friends of friends of a.
C12_SelfNeverReturned ==
    \A a \in Accounts :
        \A o \in CompletionOrders(Len(getFriends(edges, a))) :
            a \notin Range(getFriendsOfFriends(edges, a, o))

\* a has two friends, each of which lists a among its own friends, and the call
\* returns somebody
C12_Witness ==
    \E a \in Accounts :
        /\ Len(getFriends(edges, a)) >= 2
        /\ \A f \in Range(getFriends(edges, a)) : a \in Range(getFriends(edges, f))
        /\ \E o \in CompletionOrders(Len(getFriends(edges, a))) :
              getFriendsOfFriends(edges, a, o) # <<>>

\* C13: when no sub-query fails, the ids returned for a are exactly the identities
\* two hops from a.
C13_ExactlyTwoHops ==
    \A a \in Accounts :
        \A o \in CompletionOrders(Len(getFriends(edges, a))) :
            Range(getFriendsOfFriends(edges, a, o)) = TwoHops(edges, a)

\* C14: the relationship of a to b is exactly one of the three values: FRIENDS
\* exactly when b is a friend of a, also when the two have a friend in common;
\* FRIENDS_OF_FRIENDS exactly when b is no friend of a and the two have a friend in
\* common; NOT_FRIENDS otherwise.
C14_RelationshipClassifies ==
    \A a \in Accounts, b \in Accounts :
        LET r == getRelationship(edges, a, b)
            friend == b \in Range(getFriends(edges, a))
            mutual == Range(getFriends(edges, a)) \cap Range(getFriends(edges, b)) # {}
        IN
        /\ Cardinality({relationships.FRIENDS, relationships.FRIENDS_OF_FRIENDS,
                        relationships.NOT_FRIENDS}) = 3
        /\ r = relationships.FRIENDS <=> friend
        /\ r = relationships.FRIENDS_OF_FRIENDS <=> (~friend /\ mutual)
        /\ r = relationships.NOT_FRIENDS <=> (~friend /\ ~mutual)

\* b is a friend of a, the two have a friend in common, and some other pair has
\* only a friend in common
C14_Witness ==
    /\ \E a \in Accounts, b \in Accounts :
          /\ a # b
          /\ b \in Range(getFriends(edges, a))
          /\ Range(getFriends(edges, a)) \cap Range(getFriends(edges, b)) # {}
          /\ getRelationship(edges, a, b) = relationships.FRIENDS
    /\ \E a \in Accounts, b \in Accounts :
          /\ a # b
          /\ getRelationship(edges, a, b) = relationships.FRIENDS_OF_FRIENDS

C16_FailedSubQueryFailsCall ==
    \A a \in Accounts :
        LET n == Len(getFriends(edges, a)) IN
        \A o \in CompletionOrders(n), failing \in (SUBSET (1..n)) \ {{}} :
            LET d == getFriendsOfFriendsDone(edges, a, o, failing) IN
            /\ \E k \in 1..Len(d) : d[k].kind = "err"
            /\ \A k \in 1..Len(d) : d[k].kind # "ok"

\* a has friends with friends of their own, the sub-query that fails is the last to
\* complete, and the error is all the caller gets
C16_Witness ==
    \E a \in Accounts :
        LET n == Len(getFriends(edges, a)) IN
        /\ n >= 2
        /\ \E o \in CompletionOrders(n) :
              /\ getFriendsOfFriends(edges, a, o) # <<>>
              /\ getFriendsOfFriendsDone(edges, a, o, {o[n]})
                    = << [kind |-> "err", ids |-> <<>>, after |-> n] >>

\* C17: when no sub-query fails the caller is handed one result, after the last
\* sub-query has completed, and the ids in it are the same in whatever order the
\* sub-queries complete; no result is ever handed over before the last sub-query
\* has completed.
C17_ResultAfterAllSubQueries ==
    \A a \in Accounts :
        LET n == Len(getFriends(edges, a)) IN
        \A o \in CompletionOrders(n) :
            /\ \A failing \in SUBSET (1..n) :
                  LET d == getFriendsOfFriendsDone(edges, a, o, failing) IN
                  \A k \in 1..Len(d) : d[k].kind = "ok" => d[k].after = n
            /\ LET d == getFriendsOfFriendsDone(edges, a, o, {}) IN
               /\ Len(d) = 1
               /\ d[1].kind = "ok"
               /\ \A o2 \in CompletionOrders(n) :
                     Range(getFriendsOfFriends(edges, a, o2)) = Range(d[1].ids)

\* two orders of completion give the ids in different orders
C17_Witness ==
    \E a \in Accounts :
        LET n == Len(getFriends(edges, a)) IN
        \E o \in CompletionOrders(n), o2 \in CompletionOrders(n) :
            /\ getFriendsOfFriends(edges, a, o) # getFriendsOfFriends(edges, a, o2)
            /\ getFriendsOfFriendsDone(edges, a, o, {})[1].after = n

\* C18: no edge has the same account on both sides, and a request of an account
\* to itself fails and creates no edge.
C18_NoSelfEdge ==
    /\ \A e \in Range(edges) : e.requester # e.requested
    /\ \A a \in Accounts :
          IsCall("friendRequest", a, Email(a)) => last.kind = "err" /\ edges = prev

\* C19: an edge has dateAccepted set exactly when it is Accepted, and an edge gets
\* its dateAccepted in the call that accepts it, in which it goes from Pending to
\* Accepted.
C19_DateAcceptedIffAccepted ==
    /\ \A e \in Range(edges) : e.dateAccepted # {} <=> e.status = "Accepted"
    /\ \A e \in Range(edges) :
          (e.dateAccepted # {} /\ e \notin Range(prev))
          => /\ last.op \in {"acceptRequest", "AccountModel.acceptRequest"}
             /\ last.kind = "ok" /\ last.doc = {e.id}
             /\ \E p \in Range(prev) :
                   /\ p.id = e.id
                   /\ p.status = "Pending" /\ p.dateAccepted = {}
                   /\ e = [p EXCEPT !.status = "Accepted", !.dateAccepted = e.dateAccepted]

\* a request has just been accepted while another one is still Pending
C19_Witness ==
    /\ last.op = "acceptRequest" /\ last.kind = "ok"
    /\ \E e \in Range(edges) :
          e.id \in last.doc /\ e.status = "Accepted" /\ e.dateAccepted # {}
    /\ \E e \in Range(edges) : e.status = "Pending" /\ e.dateAccepted = {}

\* C20: the account-level acceptRequest(a, b) accepts a Pending request of a to b,
\* that one and nothing else; when no request of a to b is Pending (only one of b
\* to a, say) the caller gets 'Request does not exist!' and nothing changes.
C20_AccountAcceptDirection ==
    \A a \in Accounts, b \in Accounts :
        (a # b /\ IsCall("AccountModel.acceptRequest", a, b))
        => /\ PendingFrom(prev, a, b) # {}
              => /\ last.kind = "ok"
                 /\ \E p \in PendingFrom(prev, a, b) :
                       /\ last.doc = {p.id}
                       /\ edges = [k \in 1..Len(prev) |->
                                     IF prev[k].id = p.id
                                     THEN [p EXCEPT !.status = "Accepted",
                                                    !.dateAccepted = edges[k].dateAccepted]
                                     ELSE prev[k]]
           /\ PendingFrom(prev, a, b) = {}
              => last.kind = "err" /\ last.msg = NoRequest /\ edges = prev

\* C21: acceptRequest(a, b) or denyRequest(a, b) called while no Pending request of
\* a to b exists hands the caller the error 'Request does not exist!' and leaves
\* the collection as it was.
C21_NoRequestReported ==
    \A a \in Accounts, b \in Accounts :
        ( /\ IsCall("acceptRequest", a, b) \/ IsCall("denyRequest", a, b)
          /\ PendingFrom(prev, a, b) = {} )
        => last.kind = "err" /\ last.msg = NoRequest /\ edges = prev

\* the call is refused although a request in the other direction is Pending
C21_Witness ==
    \E a \in Accounts, b \in Accounts :
        /\ a # b
        /\ IsCall("denyRequest", a, b)
        /\ PendingFrom(prev, a, b) = {}
        /\ PendingFrom(prev, b, a) # {}
        /\ last.kind = "err" /\ last.msg = NoRequest

\* C22: every call ends with done called, with a result or with an error; no call
\* ends with an exception thrown out of its callback.
C22_NoCallThrows ==
    /\ last.kind # "throw"
    /\ last.op # "none" => last.kind \in {"ok", "empty", "err"}

\* C23: a request to an e-mail that names no account ends with done called with
\* no error and no request, and leaves the collection as it was.
C23_UnknownHandleNoRequest ==
    \A a \in Accounts, h \in Accounts \cup {UnknownHandle} :
        (IsCall("friendRequest", a, h) /\ resolveByHandle(h) = {})
        => last.kind = "empty" /\ last.doc = {} /\ edges = prev

C23_Witness ==
    \E a \in Accounts :
        /\ IsCall("friendRequest", a, UnknownHandle)
        /\ last.kind = "empty"
        /\ edges = prev /\ edges # <<>>

\* C24: the requests x has sent are exactly the Pending edges with requester x, each
\* once; the requests x has received exactly the Pending edges with requested x;
\* getRequests gives these two lists; and the request a call has just accepted or
\* denied is in no list. (A failed call leaves the collection as the successful
\* call before it left it, so the collections to look at are those of Succeeded.)
C24_RequestLists ==
    Succeeded =>
        \A x \in Accounts :
            LET sent == getSentRequests(edges, x)
                received == getReceivedRequests(edges, x)
            IN
            /\ Range(sent) = {e \in Range(edges) : e.status = "Pending" /\ e.requester = x}
            /\ Range(received) = {e \in Range(edges) : e.status = "Pending" /\ e.requested = x}
            /\ Len(sent) = Cardinality(Range(sent))
            /\ Len(received) = Cardinality(Range(received))
            /\ getRequests(edges, x) = [sent |-> sent, received |-> received]
            /\ last.op \in {"acceptRequest", "denyRequest"}
               => \A e \in Range(sent) \cup Range(received) : e.id \notin last.doc

\* a request that was in the lists of both its sides has just been accepted and is
\* in neither, while another request is still listed
C24_Witness ==
    \E a \in Accounts, b \in Accounts :
        /\ a # b
        /\ IsCall("acceptRequest", a, b) /\ last.kind = "ok"
        /\ \E p \in Range(getSentRequests(prev, a)) :
              /\ p.id \in last.doc
              /\ p \in Range(getReceivedRequests(prev, b))
              /\ \A e \in Range(getSentRequests(edges, a)) : e.id # p.id
              /\ \A e \in Range(getReceivedRequests(edges, b)) : e.id # p.id
        /\ getRequests(edges, a).sent # <<>> \/ getRequests(edges, a).received # <<>>

\* C25: the friends of x are the accounts on the other side of the Accepted edges
\* of x, one entry for each such edge and nothing else; an account that only a
\* Pending edge relates to x is not among them.
C25_FriendsAreAcceptedNeighbours ==
    \A x \in Accounts :
        LET accepted == {e \in Range(edges) :
                            e.status = "Accepted" /\ (e.requester = x \/ e.requested = x)}
            friendIds == getFriends(edges, x)
        IN
        /\ Range(friendIds) =
              {IF e.requester = x THEN e.requested ELSE e.requester : e \in accepted}
        /\ Len(friendIds) = Cardinality(accepted)
        /\ \A y \in Accounts :
              (Between(edges, x, y, "Accepted") = {}) => y \notin Range(friendIds)

\* x has a friend, and a Pending request relates x to an account that is no friend
C25_Witness ==
    \E x \in Accounts, y \in Accounts :
        /\ x # y
        /\ getFriends(edges, x) # <<>>
        /\ Between(edges, x, y, "Pending") # {}
        /\ y \notin Range(getFriends(edges, x))

\* C26: when a has no friends, getFriendsOfFriends(a) hands the caller the empty
\* array, once and with no error, and issues no sub-query.
C26_NoFriendsEmptyResult ==
    \A a \in Accounts :
        getFriends(edges, a) = <<>>
        => /\ \A o \in CompletionOrders(0) :
                 getFriendsOfFriendsDone(edges, a, o, {})
                    = << [kind |-> "ok", ids |-> <<>>, after |-> 0] >>
           /\ subQueries(edges, a) = <<>>

\* a has no friends, although a request to a is Pending and other accounts are friends
C26_Witness ==
    \E a \in Accounts :
        /\ getFriends(edges, a) = <<>>
        /\ getReceivedRequests(edges, a) # <<>>
        /\ \E e \in Range(edges) : e.status = "Accepted"
        /\ getFriendsOfFriends(edges, a, <<>>) = <<>>

\* C27: getFriendship(a, b) and getFriendship(b, a) give the same document, or
\* both give none. (A failed call leaves the collection as the successful call
\* before it left it, so the collections to look at are those of Succeeded.)
C27_FriendshipIgnoresDirection ==
    Succeeded =>
        \A a \in Accounts, b \in Accounts :
            getFriendship(edges, a, b) = getFriendship(edges, b, a)

\* the friendship found for (a, b) is one b requested
C27_Witness ==
    \E a \in Accounts, b \in Accounts :
        /\ a # b
        /\ \E e \in getFriendship(edges, a, b) : e.requester = b /\ e.requested = a
        /\ getFriendship(edges, b, a) # {}

\* C28: of two friendRequest calls of a to b that overlap, at most one saves a
\* request, and at most one Pending or Accepted edge relates the two accounts
\* afterwards.
C28_ConcurrentRequestsOneEdge ==
    \A c \in Callers, d \in Callers :
        ( /\ c # d
          /\ calls[c].op = "friendRequest" /\ calls[d].op = "friendRequest"
          /\ calls[c].a = calls[d].a /\ calls[c].b = calls[d].b
          /\ calls[c].a # calls[c].b
          /\ calls[c].n \in calls[d].rivals
          /\ calls[c].pc = "done" /\ calls[d].pc = "done" )
        => /\ ~(calls[c].kind = "ok" /\ calls[d].kind = "ok")
           /\ Cardinality(ActiveBetween(edges, calls[c].a, calls[c].b)) <= 1

\* C29: of an acceptRequest(a, b) and a denyRequest(a, b) that both begin while the
\* same single request of a to b is Pending, exactly one succeeds: either the
\* request is Accepted and still there and the deny gets 'Request does not exist!',
\* or it is removed and the accept gets 'Request does not exist!'.
C29_AcceptDenyExclusive ==
    \A c \in Callers, d \in Callers :
        ( /\ c # d
          /\ calls[c].op = "acceptRequest" /\ calls[d].op = "denyRequest"
          /\ calls[c].a = calls[d].a /\ calls[c].b = calls[d].b
          /\ calls[c].seen = calls[d].seen /\ Cardinality(calls[c].seen) = 1
          /\ calls[c].pc = "done" /\ calls[d].pc = "done" )
        => \/ /\ calls[c].kind = "ok"
              /\ calls[d].kind = "err" /\ calls[d].msg = NoRequest
              /\ \E e \in Range(edges) : e.id \in calls[c].seen /\ e.status = "Accepted"
           \/ /\ calls[d].kind = "ok"
              /\ calls[c].kind = "err" /\ calls[c].msg = NoRequest
              /\ \A e \in Range(edges) : e.id \notin calls[c].seen

\* A limit on the sub-queries in flight. getFriendsOfFriends takes no such setting;
\* the value stands for any limit below the number of friends an account can have.
FanOutLimit == 2

\* C30: at no moment of getFriendsOfFriends(a) are more sub-queries in flight than
\* the limit.
C30_FanOutBounded ==
    \A a \in Accounts :
        \A completed \in 0..Len(subQueries(edges, a)) :
            subQueriesInFlight(edges, a, completed) <= FanOutLimit

\* C31: the existing edge is looked for before the privacy setting: a request
\* between two accounts that a Pending or Accepted edge relates, to an account that
\* allows no requests, fails with one of the two existing-edge errors and not with
\* the not-allowed error; and no request is saved for an account that allows none.
C31_ExistingEdgeBeforePrivacy ==
    \A a \in Accounts, b \in Accounts :
        (a # b /\ IsCall("friendRequest", a, Email(b)) /\ ~canReceiveFriendRequest(last.setting))
        => /\ edges = prev
           /\ ActiveBetween(prev, a, b) # {}
              => /\ last.kind = "err"
                 /\ last.msg = (IF Between(prev, a, b, "Accepted") # {}
                                THEN AlreadyFriends ELSE PendingExists)

\* C32: for a document e of the collection and an account x, isRequester answers
\* whether x is the requester of e and isRequested whether x is its requested, so
\* exactly one of the two answers is true when x is a side of e and none when it
\* is not; for an _id no document has, both end with 'Invalid friendshipId!'.
C32_SidesOfFriendship ==
    \A id \in 1..nextId, x \in Accounts :
        LET r == isRequester(edges, id, x)
            d == isRequested(edges, id, x)
        IN
        IF \E e \in Range(edges) : e.id = id
        THEN \A e \in {f \in Range(edges) : f.id = id} :
                /\ r.kind = "ok" /\ r.doc = {x = e.requester}
                /\ d.kind = "ok" /\ d.doc = {x = e.requested}
                /\ x \in {e.requester, e.requested} => r.doc # d.doc
                /\ x \notin {e.requester, e.requested} => r.doc = {FALSE} /\ d.doc = {FALSE}
        ELSE /\ r.kind = "err" /\ r.msg = InvalidId
             /\ d.kind = "err" /\ d.msg = InvalidId

\* C33: a getFriendsOfFriends call invokes done exactly once, whichever sub-queries
\* fail and in whatever order they complete.
C33_DoneExactlyOnce ==
    \A a \in Accounts :
        LET n == Len(getFriends(edges, a)) IN
        \A o \in CompletionOrders(n), failing \in SUBSET (1..n) :
            Len(getFriendsOfFriendsDone(edges, a, o, failing)) = 1

\* C34: a getFriendsOfFriends call that has begun sooner or later invokes done,
\* whatever the graph and whichever reads fail.
C34_CallbackEventually ==
    (fof.pc # "idle") ~> (fof.acc.delivered # <<>>)

\* the call has ended with a result for an account whose friend has no other friend
C34_Witness ==
    /\ fof.pc = "done"
    /\ fof.pending = {}
    /\ \E k \in 1..Len(fof.friendIds) :
          getFriends(edges, fof.friendIds[k]) = << fof.accountId >>
    /\ \E k \in 1..Len(fof.acc.delivered) : fof.acc.delivered[k].kind = "ok"

\* C35: areFriends, areFriendsOfFriends and getRelationship give the same answer
\* for (a, b) and for (b, a).
C35_RelationshipSymmetric ==
    \A a \in Accounts, b \in Accounts :
        /\ areFriends(edges, a, b) = areFriends(edges, b, a)
        /\ areFriendsOfFriends(edges, a, b) = areFriendsOfFriends(edges, b, a)
        /\ getRelationship(edges, a, b) = getRelationship(edges, b, a)

\* two friends, the one who was asked having more friends than the one who asked,
\* and two accounts that have only a friend in common
C35_Witness ==
    /\ \E e \in Range(edges) :
          /\ e.status = "Accepted"
          /\ areFriends(edges, e.requested, e.requester)
          /\ Len(getFriends(edges, e.requested)) > Len(getFriends(edges, e.requester))
    /\ \E a \in Accounts, b \in Accounts :
          /\ a # b
          /\ getRelationship(edges, a, b) = relationships.FRIENDS_OF_FRIENDS
          /\ getRelationship(edges, b, a) = relationships.FRIENDS_OF_FRIENDS

\* C36: when no sub-query fails and whatever the order in which they complete, an
\* identity c other than a is among the friends of friends of a exactly when
\* areFriendsOfFriends(a, c) answers true.
C36_ListAgreesWithPredicate ==
    \A a \in Accounts :
        \A o \in CompletionOrders(Len(getFriends(edges, a))) :
            \A c \in Accounts \ {a} :
                (c \in Range(getFriendsOfFriends(edges, a, o)))
                    <=> areFriendsOfFriends(edges, a, c)

\* an account with a friend that is also a friend of a friend and an account two
\* hops away, both listed, and an account with a friend that is listed for it by
\* no completion order
C36_Witness ==
    /\ \E a \in Accounts : \E b \in Accounts \ {a}, c \in Accounts \ {a} :
          /\ areFriends(edges, a, b) /\ areFriendsOfFriends(edges, a, b)
          /\ ~areFriends(edges, a, c) /\ areFriendsOfFriends(edges, a, c)
          /\ \A o \in CompletionOrders(Len(getFriends(edges, a))) :
                /\ b \in Range(getFriendsOfFriends(edges, a, o))
                /\ c \in Range(getFriendsOfFriends(edges, a, o))
    /\ \E a \in Accounts : \E d \in Accounts \ {a} :
          /\ areFriends(edges, a, d) /\ ~areFriendsOfFriends(edges, a, d)
          /\ \A o \in CompletionOrders(Len(getFriends(edges, a))) :
                d \notin Range(getFriendsOfFriends(edges, a, o))

\* C37: a successful acceptRequest(a, b) leaves the number and order of the edges
\* as they were and changes exactly one of them, a Pending edge from a to b: its
\* status and dateAccepted change, its _id, requester, requested and dateSent do not.
C37_AcceptFrame ==
    (last.op = "acceptRequest" /\ last.kind = "ok") =>
        /\ Len(edges) = Len(prev)
        /\ \E k \in 1..Len(prev) :
              /\ prev[k].status = "Pending" /\ edges[k].status = "Accepted"
              /\ edges[k].dateAccepted # prev[k].dateAccepted
              /\ edges[k].id = prev[k].id
              /\ edges[k].requester = prev[k].requester /\ prev[k].requester = last.a
              /\ edges[k].requested = prev[k].requested /\ prev[k].requested = last.b
              /\ edges[k].dateSent = prev[k].dateSent
              /\ \A j \in 1..Len(prev) : j # k => edges[j] = prev[j]

\* an acceptRequest succeeded while the collection held another edge
C37_Witness ==
    /\ last.op = "acceptRequest" /\ last.kind = "ok"
    /\ Len(prev) >= 2
    /\ \E k \in 1..Len(prev), j \in 1..Len(prev) :
          /\ k # j
          /\ edges[k] # prev[k]
          /\ ActiveBetween(edges, edges[k].requester, edges[k].requested) # {edges[k]}

\* what a caller can tell two calls apart by, and the collection they leave
SameOutcome(r1, r2) == r1.kind = r2.kind /\ r1.msg = r2.msg /\ r1.store = r2.store

\* C38: from every reachable collection, and where the second variant's Friendship is
\* the model, denyRequest(a, b) of the two variants reports the same outcome and
\* leaves the same collection, run alone or with an acceptRequest(a, b) completing
\* between the findOne and the remove.
C38_DenyVariantsAgree ==
    \A a \in Accounts, b \in Accounts :
        /\ SameOutcome(denyRequest(edges, a, b), denyRequest2(edges, a, b, TRUE))
        /\ SameOutcome(denyRequestAcceptBetween(edges, DateNow, a, b),
                       denyRequest2AcceptBetween(edges, DateNow, a, b, TRUE))

====
